---- MODULE Spec2Model ----
(***************************************************************************)
(* Model of the speech playback controller (class TTSManager of            *)
(* content/content.js and utils/tts.js) of the Image Text Reader           *)
(* extension, together with the browser speech engine it drives            *)
(* (window.speechSynthesis) and the observers it notifies.                 *)
(*                                                                         *)
(* Strings of the program are sequences of one-character strings, so that  *)
(* substring, split and join are computed as the code computes them.       *)
(* Rates are the program's rates times 100 (1.5 is 150); 0 stands for an   *)
(* absent rate option.  The fields onWordChange and onEnd are 1 when they  *)
(* hold the callback that the latest speak call supplied and 0 when that   *)
(* call supplied none: speak is the only code that assigns them.           *)
(*                                                                         *)
(* Spec is the playback of texts: the operations of the controller and the *)
(* boundary and end events of the engine, those of the utterance being     *)
(* spoken and those the platform still delivers for an utterance that      *)
(* cancel() has removed from the queue.  SpecVoices is the voice list:     *)
(* getVoices, the voiceschanged signal, and speak with a rate and a voice  *)
(* name.  cancel() leaves the paused state of the engine as it is, and a   *)
(* paused engine delivers no event of the utterance in its queue.          *)
(* SpecReader is the page script (class ImageTextReader) reading the texts *)
(* of the images of a scanned page through the controller, and SpecSelect  *)
(* the scanning and selecting of images before a response arrives.         *)
(***************************************************************************)
EXTENDS Integers, Sequences, FiniteSets, TLC

VARIABLES tts, obs, promises, hist, reader, bg

vars == <<tts, obs, promises, hist, reader, bg>>

(***************************************************************************)
(* Bounds of the model.                                                    *)
(***************************************************************************)
\* number of getVoices calls in one run
MaxVoiceCalls == 2
\* number of cancelled utterances whose events are still in flight
MaxLate == 1
\* number of continuations of the page script pending at a time: extractText
\* requests, settings reads of readCurrentText and one-second timers
MaxPending == 1
\* highest value of currentTextIndex
MaxIndex == 2
\* number of addHistoryEntry calls in a run of calls made one after another
MaxAdds == 102
\* number of images in the largest extractText message
MaxImages == 6
\* number of addHistoryEntry calls when calls may overlap
MaxRaceAdds == 3
\* number of addHistoryEntry calls in progress at a time
MaxCalls == 2
\* number of clearHistory calls
MaxClears == 1

(***************************************************************************)
(* Texts, rates and voices the operations are called with.                 *)
(***************************************************************************)
Fox ==
  <<"T","h","e"," ","q","u","i","c","k"," ","b","r","o","w","n"," ","f","o","x">>

Gaps ==
  <<" ","a"," ","\t","b"," ">>

Blank ==
  <<" ">>

Empty ==
  <<>>

Texts == {Fox, Gaps, Blank, Empty}

Rates == {0, 150}

EngineVoices == {"Alice"}

VoiceNames == {"", "Alice", "nonexistent"}

BoundaryNames == {"word", "sentence"}

(***************************************************************************)
(* String functions of the language, as the code uses them.                *)
(***************************************************************************)
\* the characters the regular expression class \s matches
IsSpace(c) == c \in {" ", "\t", "\n"}

Min(a, b) == IF a < b THEN a ELSE b

\* String.prototype.substring(0, n): n is clamped to the length
Substring(s, n) == SubSeq(s, 1, Min(n, Len(s)))

RECURSIVE SplitFrom(_, _, _, _)
SplitFrom(s, i, cur, acc) ==
  IF i > Len(s) THEN Append(acc, cur)
  ELSE IF IsSpace(s[i])
       THEN IF i > 1 /\ IsSpace(s[i - 1])
            THEN SplitFrom(s, i + 1, cur, acc)
            ELSE SplitFrom(s, i + 1, <<>>, Append(acc, cur))
       ELSE SplitFrom(s, i + 1, Append(cur, s[i]), acc)

\* split keeping a text of nothing but whitespace as one piece
SplitWhole(s) ==
  IF \A i \in 1..Len(s) : IsSpace(s[i]) THEN <<s>>
  ELSE SplitFrom(s, 1, <<>>, <<>>)

\* String.prototype.split(/\s+/): the pieces between the runs of whitespace,
\* with an empty piece before a leading run and after a trailing run
Split(s) == SplitFrom(s, 1, <<>>, <<>>)

\* Array.prototype.slice(i)
Slice(ws, i) == SubSeq(ws, i + 1, Len(ws))

RECURSIVE Join(_)
\* Array.prototype.join(" ")
Join(ws) ==
  IF Len(ws) = 0 THEN <<>>
  ELSE IF Len(ws) = 1 THEN ws[1]
  ELSE ws[1] \o <<" ">> \o Join(Tail(ws))

\* the value of an array element that does not exist
Undefined == <<"undefined">>

\* the value null of the field utterance
NoUtterance == [text |-> <<>>, rate |-> 0, voice |-> ""]

\* the elements of q
Range(q) == {q[i] : i \in 1..Len(q)}

\* the last n elements of q
Last(q, n) == IF Len(q) <= n THEN q ELSE SubSeq(q, Len(q) - n + 1, Len(q))

\* q without its i-th element
Without(q, i) == SubSeq(q, 1, i - 1) \o SubSeq(q, i + 1, Len(q))

(***************************************************************************)
(* The speech engine, window.speechSynthesis.  queue holds the lengths of  *)
(* the texts of the utterances submitted and not yet finished, cancelled   *)
(* those of the utterances removed by cancel() for which the platform may  *)
(* still deliver events (the oldest first, at most MaxLate of them), cmds  *)
(* the commands received during the current operation.                     *)
(***************************************************************************)
synthCancel(s) ==
  [s EXCEPT !.cancelled = Last(@ \o s.queue, MaxLate),
            !.queue = <<>>,
            !.cmds = Append(@, "cancel")]

synthSpeak(s, u) ==
  [s EXCEPT !.queue = Append(@, Len(u.text)),
            !.cmds = Append(@, "speak")]

synthPause(s) ==
  [s EXCEPT !.paused = TRUE, !.cmds = Append(@, "pause")]

synthResume(s) ==
  [s EXCEPT !.paused = FALSE, !.cmds = Append(@, "resume")]

(***************************************************************************)
(* The methods of TTSManager, as functions of the object.                  *)
(***************************************************************************)
\* stop() without the reset of the word index
stopKeepsIndex(t) ==
  [t EXCEPT !.synth = synthCancel(@),
            !.isPlaying = FALSE,
            !.utterance = NoUtterance,
            !.currentText = <<>>,
            !.words = <<>>]

stop(t) ==
  [t EXCEPT !.synth = synthCancel(@),
            !.isPlaying = FALSE,
            !.utterance = NoUtterance,
            !.currentText = <<>>,
            !.wordIndex = 0,
            !.words = <<>>]

\* the voice selection of speak taking the name asked for as it is
findVoiceUnchecked(s, voiceName) == voiceName

\* the voice selection of speak: the engine voice of that exact name, if any
findVoice(s, voiceName) ==
  IF voiceName # "" /\ voiceName \in s.voices THEN voiceName ELSE ""

\* speak() that waits for the voices while a getVoices() call is pending:
\* it stops the session and submits nothing
speakAwaitsVoices(t, text, options) ==
  IF t.synth.voices = {} /\ t.synth.onvoiceschanged # 0
  THEN stop(t)
  ELSE LET t1 == stop(t)
           u  == [text  |-> text,
                  rate  |-> IF options.rate # 0 THEN options.rate ELSE 100,
                  voice |-> findVoice(t1.synth, options.voiceName)]
       IN  [t1 EXCEPT !.currentText = text,
                      !.onWordChange = options.onWordChange,
                      !.onEnd = options.onEnd,
                      !.words = Split(text),
                      !.wordIndex = 0,
                      !.utterance = u,
                      !.synth = synthSpeak(@, u),
                      !.isPlaying = TRUE]

speak(t, text, options) ==
  LET t1 == stop(t)
      u  == [text  |-> text,
             rate  |-> IF options.rate # 0 THEN options.rate ELSE 100,
             voice |-> findVoice(t1.synth, options.voiceName)]
  IN  [t1 EXCEPT !.currentText = text,
                 !.onWordChange = options.onWordChange,
                 !.onEnd = options.onEnd,
                 !.words = Split(text),
                 !.wordIndex = 0,
                 !.utterance = u,
                 !.synth = synthSpeak(@, u),
                 !.isPlaying = TRUE]

\* pause() without the test of isPlaying
pauseUnguarded(t) ==
  [t EXCEPT !.synth = synthPause(@), !.isPlaying = FALSE]

pause(t) ==
  IF t.isPlaying
  THEN [t EXCEPT !.synth = synthPause(@), !.isPlaying = FALSE]
  ELSE t

\* resume() that starts the text again from its first word
resumeFromStart(t) ==
  IF ~t.isPlaying /\ t.utterance # NoUtterance
  THEN [t EXCEPT !.synth = synthResume(@), !.isPlaying = TRUE,
                 !.wordIndex = 0]
  ELSE t

resume(t) ==
  IF ~t.isPlaying /\ t.utterance # NoUtterance
  THEN [t EXCEPT !.synth = synthResume(@), !.isPlaying = TRUE]
  ELSE t

\* togglePlayPause() that never resumes
toggleOnlyPauses(t) ==
  IF t.isPlaying THEN pause(t) ELSE t

togglePlayPause(t) ==
  IF t.isPlaying THEN pause(t) ELSE resume(t)

isCurrentlyPlaying(t) == t.isPlaying

\* changeRate reads this.utterance.voice after stop() has set this.utterance
\* to null: the read throws a TypeError and the method ends there
changeRateThrows(t) ==
  t.utterance # NoUtterance /\ stop(t).utterance = NoUtterance

\* changeRate without the test of this.utterance: it stops, and the read
\* of this.utterance.voice throws
changeRateUnguarded(t, rate) == stop(t)

changeRate(t, rate) ==
  IF t.utterance # NoUtterance
  THEN LET wasPlaying    == t.isPlaying
           currentIndex  == t.wordIndex
           t1            == stop(t)
           remainingText == Join(Slice(t1.words, currentIndex))
       IN  IF t1.utterance = NoUtterance
           THEN t1
           ELSE LET t2 == speak(t1, remainingText,
                                [rate         |-> rate,
                                 voiceName    |-> t1.utterance.voice,
                                 onWordChange |-> t1.onWordChange,
                                 onEnd        |-> t1.onEnd])
                IN  IF ~wasPlaying THEN pause(t2) ELSE t2
  ELSE t

\* utterance.onboundary counting the words that are still to come
onboundaryFromEnd(t, name, charIndex) ==
  IF name = "word"
  THEN LET upToIndex == Substring(t.currentText, charIndex)
       IN  [t EXCEPT !.wordIndex = Len(t.words) - Len(Split(upToIndex))]
  ELSE t

\* utterance.onboundary counting the pieces without taking one off
onboundaryOffByOne(t, name, charIndex) ==
  IF name = "word"
  THEN LET upToIndex == Substring(t.currentText, charIndex)
       IN  [t EXCEPT !.wordIndex = Len(Split(upToIndex))]
  ELSE t

\* the handler utterance.onboundary
onboundary(t, name, charIndex) ==
  IF name = "word"
  THEN LET upToIndex == Substring(t.currentText, charIndex)
       IN  [t EXCEPT !.wordIndex = Len(Split(upToIndex)) - 1]
  ELSE t

\* this.words[this.wordIndex], the value onboundary stores in currentWord
\* and hands to onWordChange; no other code reads the field
currentWord(t) ==
  IF t.wordIndex + 1 <= Len(t.words) THEN t.words[t.wordIndex + 1]
  ELSE Undefined

\* the callbacks utterance.onboundary invokes
onboundaryCalls(t, name, charIndex) ==
  LET t1 == onboundary(t, name, charIndex)
  IN  IF name = "word" /\ t1.onWordChange # 0
      THEN << [cb |-> "onWordChange", word |-> currentWord(t1),
               index |-> t1.wordIndex] >>
      ELSE <<>>

\* the handler utterance.onend
onend(t) == [t EXCEPT !.isPlaying = FALSE]

\* the callbacks utterance.onend invokes
onendCalls(t) ==
  IF t.onEnd # 0
  THEN << [cb |-> "onEnd", word |-> <<>>, index |-> 0] >>
  ELSE <<>>

(***************************************************************************)
(* Observers.  calls holds the callbacks invoked by the last step.  The    *)
(* callbacks the controller holds are those of the latest speak call, so   *)
(* the tallies are kept for that call: endCount the invocations of its     *)
(* onEnd, completed whether the engine spoke its utterance to the end,     *)
(* wordAfterEnd whether its onWordChange was invoked after its onEnd;      *)
(* prev holds the final tallies of the call before it.                     *)
(***************************************************************************)
NoTally == [endCount |-> 0, completed |-> FALSE]

observe(o, calls, natural) ==
  LET ends  == {i \in 1..Len(calls) : calls[i].cb = "onEnd"}
      words == {i \in 1..Len(calls) : calls[i].cb = "onWordChange"}
  IN  [o EXCEPT !.calls = calls,
                !.endCount = @ + Cardinality(ends),
                !.completed = @ \/ natural,
                !.wordAfterEnd = @ \/ (words # {} /\ o.endCount > 0)]

\* a step that invokes no callback
quiet(o) == [o EXCEPT !.calls = <<>>]

\* a speak call: the tallies start again for its callbacks
newSession(o) ==
  [calls |-> <<>>, endCount |-> 0, completed |-> FALSE, wordAfterEnd |-> FALSE,
   session |-> IF o.session = "none" THEN "first" ELSE "later",
   prev |-> IF o.session = "none" THEN NoTally
            ELSE [endCount |-> o.endCount, completed |-> o.completed]]

\* the engine starts an operation with an empty record of commands
fresh(t) == [t EXCEPT !.synth.cmds = <<>>]

\* the record of the step taken: the operation or event, its argument,
\* the voice name a speak call asked for, whether it threw, and in pair the
\* two-call sequence it completes
note(op, arg) ==
  [op |-> op, arg |-> arg, voiceName |-> "", threw |-> FALSE, pair |-> ""]

(***************************************************************************)
(* The page script, class ImageTextReader.  Images are numbers.  The       *)
(* overlay is its banner: content is what the text display shows (a        *)
(* message or the text being read), speed the value of the speed select,   *)
(* speedPending whether the read of defaultSpeed that createOverlay issues *)
(* has yet to call back; the labels of its buttons are not modelled.  ocr  *)
(* holds the extractText requests awaiting their response, reads the texts *)
(* whose settings read in readCurrentText has yet to call back, timers the *)
(* number of one-second timers still to fire, store the settings in        *)
(* chrome.storage.sync, saved the texts sent to the background page with   *)
(* addToHistory, alert whether the last handler raised an alert.           *)
(* run and spoken observe the script: run is "requested" from a Read All   *)
(* issued with nothing pending, "reading" once its texts have arrived, and *)
(* "none" after any control action; spoken lists the texts handed to speak *)
(* during such a run.                                                      *)
(***************************************************************************)
\* the images of the page that pass the filter of scanImages
PageImages == <<1, 2, 3>>

\* the text the OCR finds in an image: the third image holds no text
ImageText(img) ==
  IF img = 1 THEN <<"a">> ELSE IF img = 2 THEN <<"b">> ELSE <<" ">>

\* the option of the speed select the user picks
Speeds == {150}

\* the option of the voice select the user picks
VoiceOptions == EngineVoices

RECURSIVE TrimStart(_)
TrimStart(s) ==
  IF s # <<>> /\ IsSpace(Head(s)) THEN TrimStart(Tail(s)) ELSE s

RECURSIVE TrimEnd(_)
TrimEnd(s) ==
  IF s # <<>> /\ IsSpace(s[Len(s)]) THEN TrimEnd(SubSeq(s, 1, Len(s) - 1))
  ELSE s

\* String.prototype.trim()
Trim(s) == TrimEnd(TrimStart(s))

RECURSIVE Filter(_)
\* response.texts.filter((text) => text && text.trim() !== "")
Filter(texts) ==
  IF texts = <<>> THEN <<>>
  ELSE IF Head(texts) # <<>> /\ Trim(Head(texts)) # <<>>
       THEN <<Head(texts)>> \o Filter(Tail(texts))
       ELSE Filter(Tail(texts))

\* what the text display of the overlay shows
Message(m) == [msg |-> m, text |-> <<>>]
Reading(text) == [msg |-> "", text |-> text]
\* `Error: ${error.message}`
ErrorMessage(message) == [msg |-> "Error: ", text |-> <<message>>]

NoOverlay ==
  [shown |-> FALSE, content |-> Message(""), speed |-> 0,
   speedPending |-> FALSE]

NewReader ==
  [images           |-> <<>>,
   selectedImages   |-> <<>>,
   extractedTexts   |-> <<>>,
   currentTextIndex |-> 0,
   isActive         |-> FALSE,
   overlay          |-> NoOverlay,
   ocr              |-> <<>>,
   reads            |-> <<>>,
   timers           |-> 0,
   store            |-> [defaultSpeed |-> 0, defaultVoice |-> ""],
   saved            |-> {},
   alert            |-> FALSE,
   run              |-> "none",
   spoken           |-> <<>>]

createOverlay(r) ==
  [r EXCEPT !.overlay = [shown |-> TRUE, content |-> Message(""),
                         speed |-> 100, speedPending |-> TRUE]]

removeOverlay(r) == [r EXCEPT !.overlay = NoOverlay]

updateOverlayText(r, content) ==
  IF r.overlay.shown THEN [r EXCEPT !.overlay.content = content] ELSE r

scanImages(r) ==
  [r EXCEPT !.images = PageImages, !.selectedImages = <<>>]

toggleImageSelection(r, img) ==
  IF ~r.isActive THEN r
  ELSE IF img \notin Range(r.selectedImages)
       THEN [r EXCEPT !.selectedImages = Append(@, img)]
       ELSE [r EXCEPT !.selectedImages =
                        SelectSeq(@, LAMBDA other : other # img)]

\* processImages up to the point where it awaits the response
processImagesSend(r, imagesToProcess) ==
  LET r1 == IF ~r.overlay.shown THEN createOverlay(r) ELSE r
      r2 == updateOverlayText(r1, Message("Processing images..."))
  IN  [r2 EXCEPT !.ocr = Append(@, imagesToProcess)]

readAllImages(r) ==
  processImagesSend([r EXCEPT !.isActive = TRUE], r.images)

readSelectedImages(r) ==
  LET r1 == [r EXCEPT !.isActive = TRUE]
  IN  IF r1.selectedImages = <<>> THEN [r1 EXCEPT !.alert = TRUE]
      ELSE processImagesSend(r1, r1.selectedImages)

\* readCurrentText reading the first text again
readCurrentTextFirst(r) ==
  IF r.currentTextIndex >= Len(r.extractedTexts)
  THEN updateOverlayText(r, Message("Finished reading all texts."))
  ELSE LET text == r.extractedTexts[1]
           r1   == updateOverlayText(r, Reading(text))
       IN  [r1 EXCEPT !.reads = Append(@, text),
                      !.saved = @ \cup {text}]

\* readCurrentText: the callback of its settings read is left pending, the
\* addToHistory message is sent
readCurrentText(r) ==
  IF r.currentTextIndex >= Len(r.extractedTexts)
  THEN updateOverlayText(r, Message("Finished reading all texts."))
  ELSE LET text == r.extractedTexts[r.currentTextIndex + 1]
           r1   == updateOverlayText(r, Reading(text))
       IN  [r1 EXCEPT !.reads = Append(@, text),
                      !.saved = @ \cup {text}]

\* processImages reading on after an error response
processImagesIgnoresError(r, response) ==
  LET r1 == [r EXCEPT !.extractedTexts = Filter(response.texts)]
  IN  IF r1.extractedTexts = <<>>
      THEN updateOverlayText(r1, Message("No text found in the images."))
      ELSE readCurrentText([r1 EXCEPT !.currentTextIndex = 0])

\* processImages keeping every text of the response
processImagesUnfiltered(r, response) ==
  IF response.error # ""
  THEN updateOverlayText(r, ErrorMessage(response.error))
  ELSE LET r1 == [r EXCEPT !.extractedTexts = response.texts]
       IN  IF r1.extractedTexts = <<>>
           THEN updateOverlayText(r1, Message("No text found in the images."))
           ELSE readCurrentText([r1 EXCEPT !.currentTextIndex = 0])

\* processImages from the response on
processImagesReceive(r, response) ==
  IF response.error # ""
  THEN updateOverlayText(r, ErrorMessage(response.error))
  ELSE LET r1 == [r EXCEPT !.extractedTexts = Filter(response.texts)]
       IN  IF r1.extractedTexts = <<>>
           THEN updateOverlayText(r1, Message("No text found in the images."))
           ELSE readCurrentText([r1 EXCEPT !.currentTextIndex = 0])

\* the onEnd callback that readCurrentText and the voice select hand to speak
onEndNext(r) ==
  [r EXCEPT !.currentTextIndex = @ + 1, !.timers = @ + 1]

\* the part of stopReading that acts on the page script
stopReading(r) ==
  [removeOverlay(r) EXCEPT !.isActive = FALSE, !.selectedImages = <<>>]

\* the error of a response
ResponseError == "Gemini API error"

\* the responses the background page can give to a request: an error, the
\* text of each image, or an empty text for each image
Responses(imagesToProcess) ==
  {[error |-> ResponseError, texts |-> <<>>],
   [error |-> "",
    texts |-> [i \in 1..Len(imagesToProcess) |->
                 ImageText(imagesToProcess[i])]],
   [error |-> "", texts |-> [i \in 1..Len(imagesToProcess) |-> <<>>]]}

\* the kind of a response: 1 for an error, 3 for texts that are all empty
\* or white space, 2 for texts of which one is not
ResponseKind(response) ==
  IF response.error # "" THEN 1
  ELSE IF \A i \in 1..Len(response.texts) :
            \A j \in 1..Len(response.texts[i]) : IsSpace(response.texts[i][j])
       THEN 3
       ELSE 2

\* a handler of the page script starts with no alert raised
begin(r) == [r EXCEPT !.alert = FALSE]

(***************************************************************************)
(* The background page.  history is the list in chrome.storage.local, an   *)
(* entry being the clock value that is its id and the number n of the      *)
(* addHistoryEntry call that added it, which stands for its url, timestamp *)
(* and text.  clock is Date.now(), adds the number of addHistoryEntry      *)
(* calls made, calls the calls in progress: a call awaits the history it   *)
(* reads (phase "get") and then the write of limitedHistory (phase "set"). *)
(* clears counts the clearHistory calls and cleared holds the entries that *)
(* were in the stored history when clearHistory emptied it.                *)
(***************************************************************************)
\* the limit of the history size
HistoryLimit == 100

\* Array.prototype.slice(0, n)
SliceTo(a, n) == SubSeq(a, 1, Min(n, Len(a)))

\* addHistoryEntry keeping one entry more than the limit
limitedHistoryOneMore(history, newEntry) ==
  SliceTo(<<newEntry>> \o history, HistoryLimit + 1)

\* addHistoryEntry: history.unshift(newEntry), then history.slice(0, 100)
limitedHistory(history, newEntry) ==
  SliceTo(<<newEntry>> \o history, HistoryLimit)

(***************************************************************************)
(* Text extraction in the background page, class GeminiAPI.  An image of   *)
(* imageDataArray is a number, the odd ones being http URLs and the even   *)
(* ones data URLs.  A call of extractTextFromImage is a record: phase is   *)
(* "none" before it is made, "image" while the image is fetched, "request" *)
(* while the request to Gemini is in flight, then "resolved" or            *)
(* "rejected"; value is what it resolved or rejected with, starts the      *)
(* number of times it was made and fetches the fetches it issued.  A batch *)
(* is one batchExtractText call: i is the loop variable, results the array *)
(* of the same name, order the calls in the order they settled, response   *)
(* what sendResponse was given.                                            *)
(***************************************************************************)
\* the size of a batch
batchSize == 5

KeyNotSet == "Gemini API key is not set"
KeyNotSetOptions == "Gemini API key is not set. Please set it in the options page."
FailedToFetch == "Failed to fetch"
ApiError == "Gemini API error"

NoValue == [kind |-> "none", of |-> 0, message |-> ""]
\* the text Gemini extracts from an image
TextOf(imageData) == [kind |-> "text", of |-> imageData, message |-> ""]
\* new Error(message), thrown by the call for an image
Error(imageData, message) ==
  [kind |-> "error", of |-> imageData, message |-> message]

NoCall == [phase |-> "none", value |-> NoValue, starts |-> 0, fetches |-> 0]

\* imageData.startsWith("http")
isUrl(imageData) == imageData % 2 = 1

\* extractTextFromImage without the check of the key
extractTextFromImageUnchecked(apiKey, imageData, call) ==
  [call EXCEPT !.phase = IF isUrl(imageData) THEN "image" ELSE "request",
               !.starts = @ + 1,
               !.fetches = @ + 1]

\* extractTextFromImage up to its first await: the check of the key, then
\* the fetch of the image of a URL, or the request to Gemini for a data URL
extractTextFromImage(apiKey, imageData, call) ==
  IF apiKey = ""
  THEN [call EXCEPT !.phase = "rejected",
                    !.value = Error(imageData, KeyNotSet),
                    !.starts = @ + 1]
  ELSE [call EXCEPT !.phase = IF isUrl(imageData) THEN "image" ELSE "request",
                    !.starts = @ + 1,
                    !.fetches = @ + 1]

\* the image has been fetched and converted: the request to Gemini is made
imageFetched(call) ==
  [call EXCEPT !.phase = "request", !.fetches = @ + 1]

\* the call returns the text of the response
callResolves(imageData, call) ==
  [call EXCEPT !.phase = "resolved", !.value = TextOf(imageData)]

\* the call throws: a fetch failed or the response was not ok
callRejects(imageData, call, message) ==
  [call EXCEPT !.phase = "rejected", !.value = Error(imageData, message)]

\* a call of extractTextFromImage made on a GeminiAPI of its own
NoDirect == [made |-> FALSE, apiKey |-> "", call |-> NoCall]

NoResponse == [kind |-> "none", texts |-> <<>>, message |-> ""]

NoBatch ==
  [status         |-> "idle",
   apiKey         |-> "",
   imageDataArray |-> <<>>,
   i              |-> 0,
   calls          |-> <<>>,
   results        |-> <<>>,
   order          |-> <<>>,
   response       |-> NoResponse]

\* Array.prototype.slice(from, to) as the indices it takes
SliceIndices(a, from, to) == (from + 1)..Min(to, Len(a))

\* a batch that takes all the images that are left
batchUnbounded(b) ==
  SliceIndices(b.imageDataArray, b.i, Len(b.imageDataArray))

\* imageDataArray.slice(i, i + batchSize), as indices of imageDataArray
batch(b) == SliceIndices(b.imageDataArray, b.i, b.i + batchSize)

\* the promise of batchExtractText rejects and the listener answers with
\* the message of the error
rejectBatch(b, error) ==
  [b EXCEPT !.status = "rejected",
            !.response = [kind |-> "error", texts |-> <<>>,
                          message |-> error.message]]

\* batchExtractText returns results and the listener answers with the texts
resolveBatch(b) ==
  [b EXCEPT !.status = "resolved",
            !.response = [kind |-> "texts", texts |-> b.results,
                          message |-> ""]]

\* batch.map(imageData => this.extractTextFromImage(imageData))
startBatch(b) ==
  [b EXCEPT !.calls = [k \in 1..Len(b.calls) |->
                         IF k \in batch(b)
                         THEN extractTextFromImage(b.apiKey,
                                                   b.imageDataArray[k],
                                                   b.calls[k])
                         ELSE b.calls[k]]]

\* the values of the calls of the batch in the order the calls settled
batchResultsAsSettled(b) ==
  LET settled == SelectSeq(b.order, LAMBDA k : k \in batch(b))
  IN  [j \in 1..Len(settled) |-> b.calls[settled[j]].value]

\* the value of Promise.all(promises): the values of the calls of the batch
\* in the order of the batch
batchResults(b) ==
  [j \in 1..Cardinality(batch(b)) |-> b.calls[b.i + j].value]

\* the failure of a call goes unnoticed
rejectedUnnoticed(b) == {}

\* the calls of the batch that are rejected
rejected(b) == {k \in batch(b) : b.calls[k].phase = "rejected"}

RECURSIVE loop(_)
\* the loop of batchExtractText from the test of i on, up to the next await
\* that has to wait: Promise.all rejects with the error of the call that
\* rejected first, and gives the values when every call of the batch has
\* resolved
loop(b) ==
  IF b.i >= Len(b.imageDataArray) THEN resolveBatch(b)
  ELSE LET started == IF \A k \in batch(b) : b.calls[k].phase = "none"
                      THEN startBatch(b) ELSE b
       IN  IF rejected(started) # {}
           THEN LET first == IF \E j \in 1..Len(started.order) :
                                  started.order[j] \in rejected(started)
                             THEN started.order[
                                    CHOOSE j \in 1..Len(started.order) :
                                      /\ started.order[j] \in rejected(started)
                                      /\ \A h \in 1..(j - 1) :
                                           started.order[h] \notin rejected(started)]
                             ELSE CHOOSE k \in rejected(started) :
                                    \A h \in rejected(started) : k <= h
                IN  rejectBatch(started, started.calls[first].value)
           ELSE IF \A k \in batch(started) :
                      started.calls[k].phase = "resolved"
                THEN loop([started EXCEPT
                             !.results = @ \o batchResults(started),
                             !.i = @ + batchSize])
                ELSE started

\* batchExtractText(imageDataArray) on a GeminiAPI with the key apiKey
batchExtractText(apiKey, imageDataArray) ==
  loop([NoBatch EXCEPT !.status = "running",
                       !.apiKey = apiKey,
                       !.imageDataArray = imageDataArray,
                       !.calls = [k \in 1..Len(imageDataArray) |-> NoCall]])

\* handleExtractText after the key has been read, and the answer of the
\* listener
handleExtractText(apiKey, imageDataArray) ==
  IF apiKey = ""
  THEN [NoBatch EXCEPT !.status = "rejected",
                       !.imageDataArray = imageDataArray,
                       !.response = [kind |-> "error", texts |-> <<>>,
                                     message |-> KeyNotSetOptions]]
  ELSE batchExtractText(apiKey, imageDataArray)

\* a call of the batch settles as newCall; the batch goes on when it is
\* still running
settle(b, k, newCall) ==
  LET settled == [b EXCEPT !.calls[k] = newCall, !.order = Append(@, k)]
  IN  IF b.status = "running" THEN loop(settled) ELSE settled

NewBackground ==
  [history |-> <<>>,
   clock   |-> 0,
   adds    |-> 0,
   calls   |-> <<>>,
   cleared |-> {},
   clears  |-> 0,
   apiKey  |-> "",
   batch   |-> NoBatch,
   direct  |-> NoDirect]

(***************************************************************************)
(* Initial state: the constructor of TTSManager, with the voices the       *)
(* engine has loaded.                                                      *)
(***************************************************************************)
InitAll(voices, r, b) ==
  /\ reader = r
  /\ bg = b
  /\ tts = [synth        |-> [queue |-> <<>>, cancelled |-> <<>>,
                              paused |-> FALSE, voices |-> voices,
                              onvoiceschanged |-> 0, cmds |-> <<>>],
            utterance    |-> NoUtterance,
            currentText  |-> <<>>,
            isPlaying    |-> FALSE,
            wordIndex    |-> 0,
            words        |-> <<>>,
            onWordChange |-> 0,
            onEnd        |-> 0]
  /\ obs = [calls |-> <<>>, endCount |-> 0, completed |-> FALSE,
            wordAfterEnd |-> FALSE, session |-> "none", prev |-> NoTally]
  /\ promises = [c \in 1..MaxVoiceCalls |-> "none"]
  /\ hist = note("new", 0)

InitPage(voices, r) == InitAll(voices, r, NewBackground)

InitWith(voices) == InitPage(voices, NewReader)

Init == InitWith({})

(***************************************************************************)
(* The operations of the controller.                                       *)
(***************************************************************************)
SpeakWith(texts, rates, voiceNames) ==
  /\ \E text \in texts, rate \in rates, voiceName \in voiceNames,
        observed \in {0, 1} :
        /\ tts' = speak(fresh(tts), text,
                        [rate         |-> rate,
                         voiceName    |-> voiceName,
                         onWordChange |-> observed,
                         onEnd        |-> observed])
        /\ hist' = [note("speak", 0) EXCEPT !.voiceName = voiceName]
  /\ obs' = newSession(obs)
  /\ UNCHANGED <<promises, reader, bg>>

\* speak called with a text and callbacks or none, the other options absent
Speak == SpeakWith(Texts, {0}, {""})

Pause ==
  /\ tts' = pause(fresh(tts))
  /\ obs' = quiet(obs)
  /\ hist' = note("pause", 0)
  /\ UNCHANGED <<promises, reader, bg>>

Resume ==
  /\ tts' = resume(fresh(tts))
  /\ obs' = quiet(obs)
  /\ hist' = [note("resume", 0) EXCEPT
                !.pair = IF hist.op = "pause" /\ tts.synth.cmds = <<"pause">>
                         THEN "pause,resume" ELSE ""]
  /\ UNCHANGED <<promises, reader, bg>>

TogglePlayPause ==
  /\ tts' = togglePlayPause(fresh(tts))
  /\ obs' = quiet(obs)
  /\ hist' = note("togglePlayPause", 0)
  /\ UNCHANGED <<promises, reader, bg>>

Stop ==
  /\ tts' = stop(fresh(tts))
  /\ obs' = quiet(obs)
  /\ hist' = [note("stop", 0) EXCEPT
                !.pair = IF hist.op = "stop" THEN "stop,stop" ELSE ""]
  /\ UNCHANGED <<promises, reader, bg>>

ChangeRate ==
  \E rate \in Rates \ {0} :
    /\ tts' = changeRate(fresh(tts), rate)
    /\ obs' = IF "speak" \in Range(tts'.synth.cmds)
              THEN newSession(obs) ELSE quiet(obs)
    /\ hist' = [note("changeRate", rate) EXCEPT !.threw = changeRateThrows(tts)]
    /\ UNCHANGED <<promises, reader, bg>>

(***************************************************************************)
(* The events of the engine.                                               *)
(***************************************************************************)
\* the character offsets a boundary event of a text of length len carries;
\* the events that are not word boundaries are taken at offset 0
Offsets(name, len) == IF name = "word" THEN 0..len ELSE {0}

\* a boundary event of the utterance being spoken
EngineBoundary ==
  /\ tts.synth.queue # <<>>
  /\ ~tts.synth.paused
  /\ \E name \in BoundaryNames :
       \E charIndex \in Offsets(name, Head(tts.synth.queue)) :
         /\ tts' = onboundary(fresh(tts), name, charIndex)
         /\ obs' = observe(obs, onboundaryCalls(tts, name, charIndex), FALSE)
         /\ hist' = note("boundary:" \o name, charIndex)
  /\ UNCHANGED <<promises, reader, bg>>

\* the utterance being spoken reaches its end
EngineEnd ==
  /\ tts.synth.queue # <<>>
  /\ ~tts.synth.paused
  /\ tts' = [onend(fresh(tts)) EXCEPT !.synth.queue = Tail(@)]
  /\ obs' = observe(obs, onendCalls(tts), TRUE)
  /\ hist' = note("end", 0)
  /\ UNCHANGED <<promises, reader, bg>>

\* a boundary event of an utterance that cancel() has removed
LateBoundary ==
  /\ \E len \in Range(tts.synth.cancelled) :
       \E name \in BoundaryNames : \E charIndex \in Offsets(name, len) :
         /\ tts' = onboundary(fresh(tts), name, charIndex)
         /\ obs' = observe(obs, onboundaryCalls(tts, name, charIndex), FALSE)
         /\ hist' = note("lateBoundary:" \o name, charIndex)
  /\ UNCHANGED <<promises, reader, bg>>

\* the end event of an utterance that cancel() has removed
LateEnd ==
  /\ \E i \in 1..Len(tts.synth.cancelled) :
       tts' = [onend(fresh(tts)) EXCEPT !.synth.cancelled = Without(@, i)]
  /\ obs' = observe(obs, onendCalls(tts), FALSE)
  /\ hist' = note("lateEnd", 0)
  /\ UNCHANGED <<promises, reader, bg>>

Next ==
  \/ Speak
  \/ Pause
  \/ Resume
  \/ TogglePlayPause
  \/ Stop
  \/ ChangeRate
  \/ EngineBoundary
  \/ EngineEnd
  \/ LateBoundary
  \/ LateEnd

Spec == Init /\ [][Next]_vars

(***************************************************************************)
(* getVoices and the voiceschanged signal of the engine.  A promise is     *)
(* "none" before its call, then "pending" or "resolved".                   *)
(***************************************************************************)
GetVoices ==
  /\ \E c \in 1..MaxVoiceCalls :
       /\ promises[c] = "none"
       /\ \A d \in 1..(c - 1) : promises[d] # "none"
       /\ IF tts.synth.voices # {}
          THEN /\ promises' = [promises EXCEPT ![c] = "resolved"]
               /\ tts' = fresh(tts)
          ELSE /\ promises' = [promises EXCEPT ![c] = "pending"]
               /\ tts' = [fresh(tts) EXCEPT !.synth.onvoiceschanged = c]
       /\ hist' = note("getVoices", c)
  /\ obs' = quiet(obs)
  /\ UNCHANGED <<reader, bg>>

\* the engine has loaded its voices and fires voiceschanged
VoicesChanged ==
  /\ tts.synth.voices = {}
  /\ tts' = [fresh(tts) EXCEPT !.synth.voices = EngineVoices]
  /\ promises' = [c \in DOMAIN promises |->
                    IF c = tts.synth.onvoiceschanged /\ promises[c] = "pending"
                    THEN "resolved" ELSE promises[c]]
  /\ obs' = quiet(obs)
  /\ hist' = note("voiceschanged", 0)
  /\ UNCHANGED <<reader, bg>>

InitVoices == InitWith({})

\* speak called with or without a rate and a voice name
SpeakOptions == SpeakWith({Fox}, Rates, VoiceNames)

NextVoices ==
  \/ GetVoices
  \/ VoicesChanged
  \/ SpeakOptions
  \/ Stop
  \/ EngineEnd

SpecVoices == InitVoices /\ [][NextVoices]_vars

\* the engine, left alone, speaks an utterance to its end
LiveVoices == SpecVoices /\ WF_vars(EngineEnd)

(***************************************************************************)
(* The page script at work: the messages of the popup, the clicks on the   *)
(* page and on the overlay, the callbacks of the requests the script has   *)
(* pending, and the end events of the engine.  The engine has its voices   *)
(* loaded, so the getVoices call of createOverlay resolves at once.        *)
(* highlightWord only redraws the text display, so the boundary events are *)
(* left to Spec.                                                           *)
(***************************************************************************)
\* nothing of an earlier command is pending
Quiescent ==
  /\ reader.ocr = <<>>
  /\ reader.reads = <<>>
  /\ reader.timers = 0
  /\ tts.synth.queue = <<>>
  /\ tts.synth.cancelled = <<>>

\* the number of continuations of the page script that are pending
Pending(r) == Len(r.ocr) + Len(r.reads) + r.timers

\* a control action of the user ends the run that is observed
controlled(r) == [r EXCEPT !.run = "none", !.spoken = <<>>]

\* the message scanImages, sent when the popup opens
ScanImages ==
  /\ reader' = scanImages(begin(reader))
  /\ tts' = fresh(tts)
  /\ hist' = note("scanImages", 0)
  /\ UNCHANGED <<obs, promises, bg>>

\* a click on an image that scanImages gave the click handler
ClickImage ==
  /\ \E img \in Range(reader.images) :
       /\ reader' = toggleImageSelection(begin(reader), img)
       /\ hist' = note("click", img)
  /\ tts' = fresh(tts)
  /\ UNCHANGED <<obs, promises, bg>>

\* the message readAll, the button of the popup shown once the page is
\* scanned
ReadAll ==
  /\ reader.images # <<>>
  /\ Pending(reader) < MaxPending
  /\ reader' = [readAllImages(begin(reader)) EXCEPT
                  !.run = IF Quiescent THEN "requested" ELSE "none",
                  !.spoken = <<>>]
  /\ tts' = fresh(tts)
  /\ hist' = note("readAll", 0)
  /\ UNCHANGED <<obs, promises, bg>>

\* the message readSelected
ReadSelected ==
  /\ reader.images # <<>>
  /\ Pending(reader) < MaxPending
  /\ reader' = controlled(readSelectedImages(begin(reader)))
  /\ tts' = fresh(tts)
  /\ hist' = note("readSelected", 0)
  /\ UNCHANGED <<obs, promises, bg>>

\* the response to an extractText request arrives
OcrResponse ==
  /\ \E i \in 1..Len(reader.ocr) : \E response \in Responses(reader.ocr[i]) :
       LET r1 == [begin(reader) EXCEPT !.ocr = Without(@, i)]
           r2 == processImagesReceive(r1, response)
       IN /\ reader' = [r2 EXCEPT
                        !.run = IF r1.run = "requested" /\ r2.reads # <<>>
                                THEN "reading" ELSE "none"]
          /\ hist' = note("ocrResponse", ResponseKind(response))
  /\ tts' = fresh(tts)
  /\ UNCHANGED <<obs, promises, bg>>

\* the callback of the settings read of readCurrentText: it calls speak
SettingsRead ==
  /\ reader.reads # <<>>
  /\ LET text == Head(reader.reads)
     IN  /\ tts' = speak(fresh(tts), text,
                         [rate         |-> IF reader.store.defaultSpeed # 0
                                           THEN reader.store.defaultSpeed
                                           ELSE 100,
                          voiceName    |-> reader.store.defaultVoice,
                          onWordChange |-> 1,
                          onEnd        |-> 1])
         /\ reader' = [begin(reader) EXCEPT
                         !.reads = Tail(@),
                         !.spoken = IF reader.run = "reading"
                                    THEN Append(@, text) ELSE @]
  /\ hist' = note("settingsRead", 0)
  /\ UNCHANGED <<obs, promises, bg>>

\* the utterance being spoken reaches its end: onend, and the onEnd
\* callback of the page script if speak holds it
ReaderEnd ==
  /\ tts.synth.queue # <<>>
  /\ ~tts.synth.paused
  /\ Pending(reader) < MaxPending
  /\ reader.currentTextIndex < MaxIndex
  /\ tts' = [onend(fresh(tts)) EXCEPT !.synth.queue = Tail(@)]
  /\ reader' = IF tts.onEnd # 0 THEN onEndNext(begin(reader))
               ELSE begin(reader)
  /\ hist' = note("end", 0)
  /\ UNCHANGED <<obs, promises, bg>>

\* the end event of an utterance that cancel() has removed
ReaderLateEnd ==
  /\ Pending(reader) < MaxPending
  /\ reader.currentTextIndex < MaxIndex
  /\ \E i \in 1..Len(tts.synth.cancelled) :
       tts' = [onend(fresh(tts)) EXCEPT !.synth.cancelled = Without(@, i)]
  /\ reader' = IF tts.onEnd # 0 THEN onEndNext(begin(reader))
               ELSE begin(reader)
  /\ hist' = note("lateEnd", 0)
  /\ UNCHANGED <<obs, promises, bg>>

\* a one-second timer of the onEnd callback fires
TimerFires ==
  /\ reader.timers > 0
  /\ reader' = readCurrentText([begin(reader) EXCEPT !.timers = @ - 1])
  /\ tts' = fresh(tts)
  /\ hist' = note("timer", 0)
  /\ UNCHANGED <<obs, promises, bg>>

\* the Stop button, the close button or the message stopReading
StopReading ==
  /\ tts' = stop(fresh(tts))
  /\ reader' = controlled(stopReading(begin(reader)))
  /\ hist' = note("stopReading", 0)
  /\ UNCHANGED <<obs, promises, bg>>

\* the play/pause button of the overlay
PlayPauseClick ==
  /\ reader.overlay.shown
  /\ tts' = togglePlayPause(fresh(tts))
  /\ reader' = controlled(begin(reader))
  /\ hist' = note("playPause", 0)
  /\ UNCHANGED <<obs, promises, bg>>

\* the user picks a speed in the overlay: changeRate, then the write of
\* defaultSpeed, which a throwing changeRate does not reach
SpeedChange ==
  /\ reader.overlay.shown
  /\ \E rate \in Speeds :
       /\ tts' = changeRate(fresh(tts), rate)
       /\ reader' = [controlled(begin(reader)) EXCEPT
                       !.overlay.speed = rate,
                       !.store.defaultSpeed =
                          IF changeRateThrows(tts) THEN @ ELSE rate]
       /\ hist' = [note("speedChange", rate) EXCEPT
                     !.threw = changeRateThrows(tts)]
  /\ UNCHANGED <<obs, promises, bg>>

\* the read of defaultSpeed that createOverlay issued calls back
SpeedLoaded ==
  /\ reader.overlay.shown
  /\ reader.overlay.speedPending
  /\ reader' = [begin(reader) EXCEPT
                  !.overlay.speedPending = FALSE,
                  !.overlay.speed = IF reader.store.defaultSpeed # 0
                                    THEN reader.store.defaultSpeed ELSE @]
  /\ tts' = fresh(tts)
  /\ hist' = note("speedLoaded", 0)
  /\ UNCHANGED <<obs, promises, bg>>

\* the text the voice select restarts: undefined when currentTextIndex is
\* no index of extractedTexts
restartText(r) ==
  IF r.currentTextIndex < Len(r.extractedTexts)
  THEN r.extractedTexts[r.currentTextIndex + 1] ELSE Undefined

\* speak called with undefined for a text: text.split throws after stop()
\* and the assignments of the text and the callbacks
speakUndefined(t, options) ==
  [stop(t) EXCEPT !.currentText = Undefined,
                  !.onWordChange = options.onWordChange,
                  !.onEnd = options.onEnd]

\* the user picks a voice in the overlay
VoiceChange ==
  /\ reader.overlay.shown
  /\ \E voiceName \in VoiceOptions :
       LET currentText == restartText(reader)
           wasPlaying  == isCurrentlyPlaying(tts)
           options     == [rate         |-> reader.overlay.speed,
                           voiceName    |-> voiceName,
                           onWordChange |-> 1,
                           onEnd        |-> 1]
           t1          == stop(fresh(tts))
       IN  IF currentText = Undefined
           THEN /\ tts' = speakUndefined(t1, options)
                /\ reader' = controlled(begin(reader))
                /\ hist' = [note("voiceChange", 0) EXCEPT
                              !.threw = TRUE, !.voiceName = voiceName]
           ELSE /\ tts' = (IF wasPlaying THEN speak(t1, currentText, options)
                           ELSE pause(speak(t1, currentText, options)))
                /\ reader' = [controlled(begin(reader)) EXCEPT
                                !.store.defaultVoice = voiceName]
                /\ hist' = [note("voiceChange", 0) EXCEPT
                              !.voiceName = voiceName]
  /\ UNCHANGED <<obs, promises, bg>>

\* the popup has been opened on the page, which scans it
InitReader == InitPage(EngineVoices, scanImages(NewReader))

NextReader ==
  \/ ReadAll
  \/ OcrResponse
  \/ SettingsRead
  \/ ReaderEnd
  \/ ReaderLateEnd
  \/ TimerFires
  \/ StopReading
  \/ PlayPauseClick
  \/ SpeedChange
  \/ SpeedLoaded
  \/ VoiceChange

SpecReader == InitReader /\ [][NextReader]_vars

\* the popup and the page before any response arrives: scanning, selecting
\* images, the read commands and stopping
NextSelect ==
  \/ ScanImages
  \/ ClickImage
  \/ ReadAll
  \/ ReadSelected
  \/ StopReading

SpecSelect == InitWith(EngineVoices) /\ [][NextSelect]_vars

(***************************************************************************)
(* The history of the background page: the message addToHistory runs       *)
(* StorageManager.addHistoryEntry, which takes the id from the clock,      *)
(* reads the stored history, and writes the history with the new entry in  *)
(* front.                                                                  *)
(***************************************************************************)
\* addHistoryEntry is called, ticks being the milliseconds that may have
\* passed since the call before it and maxCalls the calls in progress at a
\* time
AddHistoryEntryWith(ticks, maxCalls) ==
  /\ bg.adds < MaxAdds
  /\ Len(bg.calls) < maxCalls
  /\ \E tick \in ticks :
       LET newEntry == [id |-> bg.clock + tick, n |-> bg.adds + 1]
       IN  bg' = [bg EXCEPT
                    !.clock = @ + tick,
                    !.adds = @ + 1,
                    !.calls = Append(@, [newEntry       |-> newEntry,
                                         phase          |-> "get",
                                         limitedHistory |-> <<>>])]
  /\ hist' = note("addHistoryEntry", bg.adds + 1)
  /\ tts' = fresh(tts)
  /\ UNCHANGED <<obs, promises, reader>>

\* a call made when the call before it has finished, in a later millisecond
AddHistoryEntry == AddHistoryEntryWith({1}, 1)

\* chrome.storage.local.get("history") answers a call
HistoryGet ==
  /\ \E i \in 1..Len(bg.calls) :
       /\ bg.calls[i].phase = "get"
       /\ bg' = [bg EXCEPT
                   !.calls[i].phase = "set",
                   !.calls[i].limitedHistory =
                      limitedHistory(bg.history, bg.calls[i].newEntry)]
       /\ hist' = note("historyGet", bg.calls[i].newEntry.n)
  /\ tts' = fresh(tts)
  /\ UNCHANGED <<obs, promises, reader>>

\* chrome.storage.local.set({ history: limitedHistory }) of a call is written
HistorySet ==
  /\ \E i \in 1..Len(bg.calls) :
       /\ bg.calls[i].phase = "set"
       /\ bg' = [bg EXCEPT !.history = bg.calls[i].limitedHistory,
                           !.calls = Without(@, i)]
       /\ hist' = note("historySet", bg.calls[i].newEntry.n)
  /\ tts' = fresh(tts)
  /\ UNCHANGED <<obs, promises, reader>>

NextHistory ==
  \/ AddHistoryEntry
  \/ HistoryGet
  \/ HistorySet

SpecHistory == InitWith({}) /\ [][NextHistory]_vars

(***************************************************************************)
(* The history with calls that overlap: messages of several tabs reach the *)
(* background page while an addHistoryEntry awaits the storage, several    *)
(* within one millisecond, and the options page clears the history.        *)
(***************************************************************************)
\* addHistoryEntry is called, possibly in the same millisecond as the call
\* before it and while that call is in progress
AddHistoryEntryRacing ==
  /\ bg.adds < MaxRaceAdds
  /\ AddHistoryEntryWith({0, 1}, MaxCalls)

\* clearHistory: chrome.storage.local.set({ history: [] })
ClearHistory ==
  /\ bg.clears < MaxClears
  /\ bg' = [bg EXCEPT !.history = <<>>,
                      !.clears = @ + 1,
                      !.cleared = @ \cup {bg.history[i].n :
                                            i \in 1..Len(bg.history)}]
  /\ hist' = note("clearHistory", 0)
  /\ tts' = fresh(tts)
  /\ UNCHANGED <<obs, promises, reader>>

NextHistoryRace ==
  \/ AddHistoryEntryRacing
  \/ HistoryGet
  \/ HistorySet
  \/ ClearHistory

SpecHistoryRace == InitWith({}) /\ [][NextHistoryRace]_vars

(***************************************************************************)
(* Text extraction: the message extractText runs handleExtractText, which  *)
(* reads the key and runs batchExtractText; the calls of                   *)
(* extractTextFromImage go on as their fetches are answered.               *)
(***************************************************************************)
ImageDataArrays == {<<>>, <<1>>, [k \in 1..MaxImages |-> k]}

\* the options page saves a key, which it does for a key that is not empty
SaveApiKey ==
  /\ bg.apiKey = ""
  /\ bg' = [bg EXCEPT !.apiKey = "key"]
  /\ hist' = note("saveApiKey", 0)
  /\ tts' = fresh(tts)
  /\ UNCHANGED <<obs, promises, reader>>

\* the listener gets an extractText message: handleExtractText awaits the key
ExtractText ==
  /\ bg.batch.status = "idle"
  /\ \E imageDataArray \in ImageDataArrays :
       bg' = [bg EXCEPT !.batch = [NoBatch EXCEPT
                                     !.status = "getApiKey",
                                     !.imageDataArray = imageDataArray]]
  /\ hist' = note("extractText", 0)
  /\ tts' = fresh(tts)
  /\ UNCHANGED <<obs, promises, reader>>

\* StorageManager.getApiKey() answers: handleExtractText goes on
GotApiKey ==
  /\ bg.batch.status = "getApiKey"
  /\ bg' = [bg EXCEPT !.batch = handleExtractText(bg.apiKey,
                                                  bg.batch.imageDataArray)]
  /\ hist' = note("getApiKey", 0)
  /\ tts' = fresh(tts)
  /\ UNCHANGED <<obs, promises, reader>>

\* the fetch of the image of call k is answered
ImageFetched ==
  /\ \E k \in 1..Len(bg.batch.calls) :
       /\ bg.batch.calls[k].phase = "image"
       /\ \/ bg' = [bg EXCEPT !.batch.calls[k] = imageFetched(@)]
          \/ bg' = [bg EXCEPT !.batch =
                      settle(@, k, callRejects(bg.batch.imageDataArray[k],
                                               bg.batch.calls[k],
                                               FailedToFetch))]
       /\ hist' = note("imageFetched", k)
  /\ tts' = fresh(tts)
  /\ UNCHANGED <<obs, promises, reader>>

\* the request to Gemini of call k is answered
RequestAnswered ==
  /\ \E k \in 1..Len(bg.batch.calls) :
       /\ bg.batch.calls[k].phase = "request"
       /\ \/ bg' = [bg EXCEPT !.batch =
                      settle(@, k, callResolves(bg.batch.imageDataArray[k],
                                                bg.batch.calls[k]))]
          \/ bg' = [bg EXCEPT !.batch =
                      settle(@, k, callRejects(bg.batch.imageDataArray[k],
                                               bg.batch.calls[k],
                                               ApiError))]
       /\ hist' = note("requestAnswered", k)
  /\ tts' = fresh(tts)
  /\ UNCHANGED <<obs, promises, reader>>

\* extractTextFromImage is called on a GeminiAPI made with any key
ExtractTextFromImage ==
  /\ ~bg.direct.made
  /\ \E apiKey \in {"", "key"}, imageData \in 1..2 :
       /\ bg' = [bg EXCEPT !.direct =
                   [made |-> TRUE, apiKey |-> apiKey,
                    call |-> extractTextFromImage(apiKey, imageData, NoCall)]]
       /\ hist' = note("extractTextFromImage", imageData)
  /\ tts' = fresh(tts)
  /\ UNCHANGED <<obs, promises, reader>>

NextBatch ==
  \/ SaveApiKey
  \/ ExtractText
  \/ GotApiKey
  \/ ImageFetched
  \/ RequestAnswered
  \/ ExtractTextFromImage

SpecBatch == InitWith({}) /\ [][NextBatch]_vars

(***************************************************************************)
(* Properties of the controller.                                           *)
(***************************************************************************)
\* the fields of a session that playback progress consists of
Progress(t) ==
  <<t.currentText, t.words, t.wordIndex, t.utterance, t.onWordChange, t.onEnd>>

\* the state stop() is to leave
Stopped(t) ==
  /\ t.currentText = <<>>
  /\ t.words = <<>>
  /\ t.wordIndex = 0
  /\ ~t.isPlaying
  /\ t.utterance = NoUtterance
  /\ t.synth.queue = <<>>

\* the controller object without the record of the engine commands
Fields(t) == [t EXCEPT !.synth.cmds = <<>>]

\* the callbacks named cb among the callbacks invoked by the last step
Invoked(o, cb) == {i \in 1..Len(o.calls) : o.calls[i].cb = cb}

\* the number of whitespace-delimited tokens of p, an empty token before a
\* leading and after a trailing run of whitespace included: one more than
\* the number of runs of whitespace
NumTokens(p) ==
  1 + Cardinality({i \in 1..Len(p) :
                     IsSpace(p[i]) /\ (i = Len(p) \/ ~IsSpace(p[i + 1]))})

\* C1: changeRate(r) on a session with words w and word index i submits a
\* new utterance whose text is w[i..] joined with single spaces, at rate r,
\* with the same voice and the same callbacks.
ChangeRateKeepsRemaining ==
  [][(hist'.op = "changeRate" /\ tts.utterance # NoUtterance) =>
       /\ "speak" \in Range(tts'.synth.cmds)
       /\ tts'.utterance.text = Join(Slice(tts.words, tts.wordIndex))
       /\ tts'.utterance.rate = hist'.arg
       /\ tts'.utterance.voice = tts.utterance.voice
       /\ tts'.onWordChange = tts.onWordChange
       /\ tts'.onEnd = tts.onEnd]_vars

\* C2: onEnd is invoked only by the natural completion of the utterance
\* being spoken, never by an event the engine delivers for an utterance
\* that stop() or a later speak() has cancelled.
OnEndOnlyOnCompletion ==
  [][Invoked(obs', "onEnd") # {} => hist'.op = "end"]_vars

\* C3: after a speak call returns exactly one session is live, with the
\* text, words and callbacks of that call, word index 0 and isPlaying true;
\* the engine holds one utterance, submitted after a cancel, and never more
\* than one; onEnd has not fired for the call before it unless that one
\* completed.
SingleActiveSession ==
  /\ Len(tts.synth.queue) <= 1
  /\ hist.op = "speak" =>
       /\ tts.utterance # NoUtterance
       /\ tts.currentText = tts.utterance.text
       /\ tts.words = Split(tts.utterance.text)
       /\ tts.wordIndex = 0
       /\ tts.isPlaying
       /\ Len(tts.synth.queue) = 1
       /\ tts.synth.cmds = <<"cancel", "speak">>
       /\ (obs.session = "later" /\ ~obs.prev.completed) =>
             obs.prev.endCount = 0

\* C4: onEnd of a session is invoked once if the session completed
\* naturally and never otherwise, after all its onWordChange invocations,
\* and natural completion sets isPlaying to false.
OnEndExactlyOnce ==
  /\ obs.endCount = (IF obs.completed /\ tts.onEnd # 0 THEN 1 ELSE 0)
  /\ ~obs.wordAfterEnd
  /\ hist.op = "end" => ~tts.isPlaying

\* C5: changeRate on an existing session leaves a session that is playing
\* if the prior one was playing and paused if it was paused, and never
\* leaves the controller idle.
ChangeRateKeepsState ==
  [][(hist'.op = "changeRate" /\ tts.utterance # NoUtterance) =>
       /\ ~hist'.threw
       /\ tts'.utterance # NoUtterance
       /\ tts'.isPlaying = tts.isPlaying]_vars

\* C6: after stop() the text and the words are empty, the word index is 0,
\* isPlaying is false and there is no session; a second stop(), or a stop()
\* with no session, leaves exactly that state, and stop() never throws.
StopIdempotent ==
  [][hist'.op = "stop" =>
       /\ Stopped(tts')
       /\ ~hist'.threw
       /\ Stopped(tts) => Fields(tts') = Fields(tts)
       /\ hist.op = "stop" => (tts' = tts /\ obs' = obs)]_vars

StoppedTwice ==
  /\ hist.op = "stop"
  /\ hist.pair = "stop,stop"
  /\ obs.session # "none"
  /\ Stopped(tts)

\* C7: every getVoices() call that is pending is eventually resolved, also
\* when the engine never fires voiceschanged.
GetVoicesResolves ==
  \A c \in 1..MaxVoiceCalls :
    (promises[c] = "pending") ~> (promises[c] = "resolved")

\* C8: togglePlayPause makes a playing session not playing and a paused
\* session playing, leaves isPlaying false when there is no session, and
\* never throws.
ToggleSemantics ==
  [][hist'.op = "togglePlayPause" =>
       /\ ~hist'.threw
       /\ tts.isPlaying => ~isCurrentlyPlaying(tts')
       /\ (~tts.isPlaying /\ tts.utterance # NoUtterance) =>
             isCurrentlyPlaying(tts')
       /\ tts.utterance = NoUtterance => ~isCurrentlyPlaying(tts')]_vars

ToggledToPlaying ==
  /\ hist.op = "togglePlayPause"
  /\ tts.synth.cmds = <<"resume">>
  /\ tts.isPlaying
  /\ tts.synth.queue # <<>>

\* C9: pause() keeps the text, the words, the word index, the session and
\* its callbacks, and so does a resume() that follows it, after which
\* isPlaying is true again if the session was playing before the pause.
PauseResumeKeepsProgress ==
  [][/\ hist'.op = "pause" => Progress(tts') = Progress(tts)
     /\ (hist.op = "pause" /\ hist'.op = "resume") =>
          /\ Progress(tts') = Progress(tts)
          /\ tts.synth.cmds = <<"pause">> => tts'.isPlaying]_vars

ResumedAfterPause ==
  /\ hist.op = "resume"
  /\ hist.pair = "pause,resume"
  /\ tts.isPlaying
  /\ tts.wordIndex > 0

\* C10: while a session with text t exists, a word boundary event with
\* character offset o sets wordIndex to the number of whitespace-delimited
\* tokens of t[0:o] minus 1 and invokes onWordChange(words[wordIndex],
\* wordIndex): for "The quick brown fox", ("quick", 1) at offset 4 and
\* ("fox", 3) at offset 16.  A boundary event of another kind changes
\* nothing and invokes nothing.
WordBoundaryHandling ==
  [][/\ (hist'.op \in {"boundary:word", "lateBoundary:word"}
           /\ tts.utterance # NoUtterance) =>
          LET o == hist'.arg
              k == NumTokens(Substring(tts.currentText, o)) - 1
          IN  /\ tts'.wordIndex = k
              /\ k < Len(tts.words)
              /\ tts.onWordChange # 0 =>
                   obs'.calls = << [cb |-> "onWordChange",
                                    word |-> tts.words[k + 1], index |-> k] >>
              /\ tts.onWordChange = 0 => obs'.calls = <<>>
              /\ (tts.currentText = Fox /\ o = 4 /\ tts.onWordChange # 0) =>
                   /\ obs'.calls[1].word = <<"q", "u", "i", "c", "k">>
                   /\ obs'.calls[1].index = 1
              /\ (tts.currentText = Fox /\ o = 16 /\ tts.onWordChange # 0) =>
                   /\ obs'.calls[1].word = <<"f", "o", "x">>
                   /\ obs'.calls[1].index = 3
     /\ hist'.op \in {"boundary:sentence", "lateBoundary:sentence"} =>
          /\ Fields(tts') = Fields(tts)
          /\ obs'.calls = <<>>]_vars

FoxAtOffset16 ==
  /\ hist.op = "boundary:word"
  /\ hist.arg = 16
  /\ tts.currentText = Fox
  /\ tts.wordIndex = 3
  /\ Invoked(obs, "onWordChange") = {1}

\* the steps that handle a word boundary event
WordEvents == {"boundary:word", "lateBoundary:word"}

\* C11: within one session the word index does not decrease along word
\* boundary events with non-decreasing character offsets: a word boundary
\* event at offset o computes an index, the one it passes to onWordChange,
\* that is not below the index of the event before it when that one had an
\* offset of at most o, nor below the index the session computes for the
\* offset o - 1.
WordIndexMonotonic ==
  [][(hist'.op \in WordEvents /\ tts.utterance # NoUtterance) =>
       /\ (hist.op \in WordEvents /\ hist.arg <= hist'.arg) =>
            tts.wordIndex <= tts'.wordIndex
       /\ hist'.arg > 0 =>
            onboundary(tts, "word", hist'.arg - 1).wordIndex <= tts'.wordIndex
       /\ \A i \in Invoked(obs', "onWordChange") :
            obs'.calls[i].index = tts'.wordIndex]_vars

GapsAtOffset6 ==
  /\ hist.op = "boundary:word"
  /\ hist.arg = 6
  /\ tts.currentText = Gaps
  /\ tts.wordIndex = 3
  /\ Invoked(obs, "onWordChange") = {1}
  /\ obs.calls[1].index = 3

\* C12: when a word boundary event has been handled, wordIndex is a valid
\* index into words and the word handed to onWordChange is the token
\* words[wordIndex], also when the event belongs to an utterance that
\* stop() or a later speak() has cancelled.
WordIndexValid ==
  [][hist'.op \in WordEvents =>
       /\ 0 <= tts'.wordIndex
       /\ tts'.wordIndex < Len(tts'.words)
       /\ \A i \in Invoked(obs', "onWordChange") :
            /\ obs'.calls[i].word # Undefined
            /\ obs'.calls[i].word = tts'.words[tts'.wordIndex + 1]]_vars

\* C13: speak with a voice name that no engine voice carries raises no
\* error, sets no voice on the utterance, submits the utterance and marks
\* the session playing; with a name an engine voice carries, the utterance
\* has exactly that voice.
VoiceMissIsSilent ==
  [][hist'.op = "speak" =>
       LET v == hist'.voiceName
       IN  /\ ~hist'.threw
           /\ tts'.synth.cmds = <<"cancel", "speak">>
           /\ tts'.synth.queue = << Len(tts'.utterance.text) >>
           /\ tts'.isPlaying
           /\ v \notin tts.synth.voices => tts'.utterance.voice = ""
           /\ v \in tts.synth.voices => tts'.utterance.voice = v]_vars

SpokenWithUnknownVoice ==
  /\ hist.op = "speak"
  /\ hist.voiceName = "nonexistent"
  /\ tts.synth.voices = EngineVoices
  /\ tts.utterance.voice = ""
  /\ tts.isPlaying
  /\ tts.synth.queue # <<>>

\* a text of nothing but whitespace, the empty text included
AllSpace(s) == \A i \in 1..Len(s) : IsSpace(s[i])

\* C14 as stated: a session on an empty or whitespace-only text has a words
\* sequence of exactly one element and its wordIndex stays 0 at every
\* boundary event.
DegenerateTextOneWord ==
  (tts.utterance # NoUtterance /\ AllSpace(tts.currentText)) =>
    /\ Len(tts.words) = 1
    /\ tts.wordIndex = 0

\* C14: speak accepts an empty or whitespace-only text.  The empty text
\* gives a words sequence of one empty element and its wordIndex stays 0 at
\* every boundary event; a non-empty whitespace-only text gives two empty
\* elements, and a word boundary event sets wordIndex to 0 at offset 0 and
\* to 1 at any later offset.
DegenerateTextWords ==
  (tts.utterance # NoUtterance /\ AllSpace(tts.currentText)) =>
    /\ hist.op = "speak" => (~hist.threw /\ tts.isPlaying)
    /\ tts.currentText = <<>> =>
         /\ tts.words = << <<>> >>
         /\ tts.wordIndex = 0
    /\ tts.currentText # <<>> =>
         /\ tts.words = << <<>>, <<>> >>
         /\ tts.wordIndex \in {0, 1}
         /\ hist.op \in WordEvents =>
              tts.wordIndex = (IF hist.arg = 0 THEN 0 ELSE 1)

BlankAtOffset1 ==
  /\ hist.op = "boundary:word"
  /\ hist.arg = 1
  /\ tts.currentText = Blank
  /\ tts.words = << <<>>, <<>> >>
  /\ tts.wordIndex = 1

\* C15: resume() changes nothing when the session is playing; with no
\* unfinished utterance (before any speak, after stop, after natural
\* completion) resume() and togglePlayPause() send no engine command and
\* leave isPlaying false; isPlaying is true only while the engine holds an
\* unfinished utterance.
ResumeNoOpWhenIdle ==
  [][/\ (hist'.op \in {"resume", "togglePlayPause"}
           /\ tts.synth.queue = <<>> /\ tts.synth.cancelled = <<>>) =>
          /\ tts'.synth.cmds = <<>>
          /\ ~tts'.isPlaying
     /\ (hist'.op = "resume" /\ tts.isPlaying) =>
          Fields(tts') = Fields(tts)
     /\ (tts'.isPlaying /\ tts.synth.cancelled = <<>>) =>
          tts'.synth.queue # <<>>]_vars

\* C20: a getVoices() call made when the engine has voices is resolved at
\* once; a call made while the engine has none stays pending until the
\* engine fires voiceschanged and is resolved by it, each of several pending
\* calls included: no call is pending once the engine has voices.
GetVoicesAllResolve ==
  /\ (hist.op = "getVoices" /\ tts.synth.voices # {}) =>
       promises[hist.arg] = "resolved"
  /\ tts.synth.voices = {} =>
       \A c \in 1..MaxVoiceCalls : promises[c] # "resolved"
  /\ tts.synth.voices # {} =>
       \A c \in 1..MaxVoiceCalls : promises[c] # "pending"

\* C16: stopReading removes the overlay and leaves nothing being spoken,
\* and from then until the next read command (isActive stays false) no
\* step starts speech or shows the overlay, whatever response, settings
\* read or timer was pending at the stop.
StopStopsReading ==
  [][/\ hist'.op = "stopReading" =>
          /\ ~reader'.overlay.shown
          /\ tts'.synth.queue = <<>>
          /\ ~tts'.isPlaying
     /\ (~reader.isActive /\ ~reader'.isActive) =>
          /\ "speak" \notin Range(tts'.synth.cmds)
          /\ tts'.synth.queue = <<>>
          /\ ~reader'.overlay.shown]_vars

\* C17: in a Read All whose response brings the non-empty texts t1..tn and
\* during which the user takes no control action, speak is called with t1,
\* t2, ..., tn in that order, each once and each when the engine has
\* finished the one before; every end event advances currentTextIndex by 1;
\* the timer after tn shows "Finished reading all texts." and nothing more
\* is spoken or pending.
ReadAllSequential ==
  [][reader'.run = "reading" =>
       LET texts == reader'.extractedTexts
           n     == Len(texts)
           k     == Len(reader'.spoken)
           i     == reader'.currentTextIndex
           done  == reader'.overlay.content
                      = Message("Finished reading all texts.")
       IN  /\ reader'.spoken = SubSeq(texts, 1, k)
           /\ hist'.op = "ocrResponse" => (n > 0 /\ i = 0 /\ k = 0)
           /\ hist'.op = "settingsRead" =>
                /\ tts.synth.queue = <<>>
                /\ k = i + 1
                /\ tts'.utterance.text = texts[k]
                /\ tts'.synth.cmds = <<"cancel", "speak">>
                /\ Len(tts'.synth.queue) = 1
           /\ hist'.op # "settingsRead" =>
                "speak" \notin Range(tts'.synth.cmds)
           /\ hist'.op = "end" =>
                (i = reader.currentTextIndex + 1 /\ k = i)
           /\ (hist'.op = "timer" /\ i >= n) => done
           /\ done =>
                /\ reader'.spoken = texts
                /\ i = n
                /\ reader'.reads = <<>>
                /\ reader'.timers = 0
                /\ tts'.synth.queue = <<>>]_vars

ReadAllFinished ==
  /\ reader.run = "reading"
  /\ hist.op = "timer"
  /\ reader.extractedTexts = << <<"a">>, <<"b">> >>
  /\ reader.spoken = reader.extractedTexts
  /\ reader.currentTextIndex = 2
  /\ reader.overlay.content = Message("Finished reading all texts.")

\* C18: once the page is scanned, a click on a detected image selects it
\* when it is not selected and deselects it when it is; Read Selected then
\* requests the text of exactly the selected images, and with no image
\* selected it requests nothing and alerts the user.
SelectionAsDocumented ==
  [][/\ hist'.op = "click" =>
          LET img == hist'.arg
          IN  /\ img \notin Range(reader.selectedImages) =>
                   img \in Range(reader'.selectedImages)
              /\ img \in Range(reader.selectedImages) =>
                   img \notin Range(reader'.selectedImages)
     /\ hist'.op = "readSelected" =>
          IF reader.selectedImages = <<>>
          THEN reader'.alert /\ reader'.ocr = reader.ocr
          ELSE reader'.ocr = Append(reader.ocr, reader.selectedImages)]_vars

\* C19: when the user picks a speed in the overlay, the rate is written to
\* the settings store as defaultSpeed, with no session as well as with a
\* session that is playing, paused or finished, and a session that existed
\* goes on at the new rate.
SpeedIsSaved ==
  [][hist'.op = "speedChange" =>
       /\ ~hist'.threw
       /\ reader'.store.defaultSpeed = hist'.arg
       /\ tts.utterance # NoUtterance =>
            /\ tts'.utterance # NoUtterance
            /\ tts'.utterance.rate = hist'.arg]_vars

\* C21: with no session, in the initial state and after stop(), changeRate
\* sends no engine command, invokes no callback, changes no field of the
\* controller and does not throw.
ChangeRateNoSession ==
  [][(hist'.op = "changeRate" /\ tts.utterance = NoUtterance) =>
       /\ tts'.synth.cmds = <<>>
       /\ obs'.calls = <<>>
       /\ Fields(tts') = Fields(tts)
       /\ ~hist'.threw]_vars

ChangedRateAfterStop ==
  /\ hist.op = "changeRate"
  /\ ~hist.threw
  /\ tts.synth.cmds = <<>>
  /\ tts.utterance = NoUtterance
  /\ tts.synth.cancelled # <<>>
  /\ obs.session # "none"

\* C22: pause() with isPlaying false (no session, paused, or completed)
\* sends no engine command and changes no field; with isPlaying true it
\* sends exactly one engine pause and sets isPlaying to false, keeping the
\* text, the words, the word index, the session and the callbacks.
PauseOnlyWhenPlaying ==
  [][hist'.op = "pause" =>
       IF ~tts.isPlaying
       THEN /\ tts'.synth.cmds = <<>>
            /\ Fields(tts') = Fields(tts)
       ELSE /\ tts'.synth.cmds = <<"pause">>
            /\ ~tts'.isPlaying
            /\ tts'.synth.paused
            /\ Progress(tts') = Progress(tts)
            /\ Fields(tts') = [Fields(tts) EXCEPT !.isPlaying = FALSE,
                                                  !.synth.paused = TRUE]]_vars

PausedTwice ==
  /\ hist.op = "pause"
  /\ tts.synth.cmds = <<>>
  /\ ~tts.isPlaying
  /\ tts.synth.paused
  /\ tts.utterance # NoUtterance

\* the getVoices() calls waiting for voiceschanged
PendingCalls == {c \in 1..MaxVoiceCalls : promises[c] = "pending"}

\* C23: speak called while a getVoices() call is pending proceeds at once:
\* it takes its voice from the voices the engine has at that moment,
\* submits the utterance and marks the session playing, and it leaves the
\* pending call and its handler as they are; the voiceschanged signal that
\* follows resolves the pending call.
SpeakWhileVoicesPending ==
  [][/\ (hist'.op = "speak" /\ PendingCalls # {}) =>
          LET v == hist'.voiceName
          IN  /\ ~hist'.threw
              /\ tts'.synth.cmds = <<"cancel", "speak">>
              /\ tts'.synth.queue = << Len(tts'.utterance.text) >>
              /\ tts'.isPlaying
              /\ tts'.utterance.voice =
                   (IF v \in tts.synth.voices THEN v ELSE "")
              /\ promises' = promises
              /\ tts'.synth.onvoiceschanged = tts.synth.onvoiceschanged
     /\ (hist'.op = "voiceschanged" /\ Cardinality(PendingCalls) = 1) =>
          \A c \in PendingCalls : promises'[c] = "resolved"]_vars

SpokenWhileVoicesPending ==
  /\ hist.op = "speak"
  /\ hist.voiceName = "Alice"
  /\ promises[1] = "pending"
  /\ tts.synth.voices = {}
  /\ tts.utterance.voice = ""
  /\ tts.isPlaying
  /\ tts.synth.queue # <<>>

\* the addHistoryEntry calls that have finished
Added == bg.adds - Len(bg.calls)

\* C24: after addHistoryEntry calls made one after another the stored
\* history holds at most 100 entries, the entry added last is first, the
\* entries are in reverse order of addition, and beyond 100 entries it is
\* the oldest that are dropped: the history of k calls holds the entries
\* k, k - 1, ..., down to k - 99 or to 1.
HistoryNewestFirst ==
  /\ Len(bg.history) <= 100
  /\ Len(bg.history) = (IF Added < 100 THEN Added ELSE 100)
  /\ \A i \in 1..Len(bg.history) : bg.history[i].n = Added - i + 1

HistoryOverflowed ==
  /\ hist.op = "historySet"
  /\ bg.adds = 102
  /\ bg.calls = <<>>
  /\ Len(bg.history) = 100
  /\ bg.history[1].n = 102
  /\ bg.history[100].n = 3

\* the calls of extractTextFromImage of the batch that are in flight
InFlight ==
  {k \in 1..Len(bg.batch.calls) : bg.batch.calls[k].phase \in {"image", "request"}}

\* the calls of extractTextFromImage of the batch that have been made
Made == {k \in 1..Len(bg.batch.calls) : bg.batch.calls[k].phase # "none"}

\* C25: during a batchExtractText call at most 5 extractTextFromImage calls
\* are in flight, the calls made are those of the first chunks of 5
\* consecutive inputs, and a call of a chunk is made only when every call
\* of the chunks before it has resolved.
BatchesOfFive ==
  /\ Cardinality(InFlight) <= 5
  /\ \A k \in Made :
       /\ \A j \in 1..(5 * ((k - 1) \div 5)) :
            bg.batch.calls[j].phase = "resolved"
       /\ \A j \in (5 * ((k - 1) \div 5) + 1)..Len(bg.batch.calls) :
            j <= 5 * ((k - 1) \div 5) + 5 => j \in Made

SecondBatchInFlight ==
  /\ Len(bg.batch.imageDataArray) > 5
  /\ 6 \in InFlight
  /\ \A j \in 1..5 : bg.batch.calls[j].phase = "resolved"
  /\ bg.batch.order # <<1, 2, 3, 4, 5>>

\* the calls of extractTextFromImage of the batch that have failed
Failed ==
  {k \in 1..Len(bg.batch.calls) : bg.batch.calls[k].phase = "rejected"}

\* the call that failed first
FirstFailed ==
  bg.batch.order[CHOOSE j \in 1..Len(bg.batch.order) :
                   /\ bg.batch.order[j] \in Failed
                   /\ \A h \in 1..(j - 1) : bg.batch.order[h] \notin Failed]

BatchKeepsInputOrder ==
  (/\ bg.batch.status \in {"running", "resolved", "rejected"}
   /\ bg.batch.apiKey # ""
   /\ \A k \in 1..Len(bg.batch.calls) : bg.batch.calls[k].phase = "resolved")
  => /\ bg.batch.status = "resolved"
     /\ bg.batch.response.kind = "texts"
     /\ Len(bg.batch.response.texts) = Len(bg.batch.imageDataArray)
     /\ \A i \in 1..Len(bg.batch.imageDataArray) :
          bg.batch.response.texts[i] =
            [kind |-> "text", of |-> bg.batch.imageDataArray[i], message |-> ""]

BatchResolvedOutOfOrder ==
  /\ bg.batch.status = "resolved"
  /\ hist.op = "requestAnswered"
  /\ Len(bg.batch.imageDataArray) > 5
  /\ bg.batch.order[1] = 4
  /\ bg.batch.order[2] = 2
  /\ Len(bg.batch.response.texts) = Len(bg.batch.imageDataArray)

\* C28: when no key is stored the extractText message is answered with the
\* error that the key is not set, and no call of extractTextFromImage is
\* made and no fetch issued for any image, then or later; and
\* extractTextFromImage on a GeminiAPI with an empty key throws that the key
\* is not set without issuing a fetch.
MissingKeyNoTraffic ==
  /\ [][(hist'.op = "getApiKey" /\ bg.apiKey = "") =>
          /\ bg'.batch.status = "rejected"
          /\ bg'.batch.response.kind = "error"
          /\ bg'.batch.response.message =
               "Gemini API key is not set. Please set it in the options page."
          /\ bg'.batch.calls = <<>>]_vars
  /\ [][(bg.batch.status = "rejected" /\ bg.batch.calls = <<>>) =>
          bg'.batch = bg.batch]_vars
  /\ [][(hist'.op = "extractTextFromImage" /\ bg'.direct.apiKey = "") =>
          /\ bg'.direct.call.phase = "rejected"
          /\ bg'.direct.call.value.kind = "error"
          /\ bg'.direct.call.value.message = "Gemini API key is not set"
          /\ bg'.direct.call.fetches = 0]_vars

AnsweredKeyNotSet ==
  /\ Len(bg.batch.imageDataArray) > 5
  /\ bg.batch.response.kind = "error"
  /\ bg.batch.calls = <<>>
  /\ bg.direct.made
  /\ bg.direct.apiKey = ""
  /\ bg.direct.call.phase = "rejected"
  /\ bg.apiKey = "key"

\* what an error response leaves alone: no text is handed to a settings
\* read or to speak, none is sent to the history, the texts and the index
\* stay, the engine gets no command, nothing is thrown
ErrorStartsNothing ==
  /\ reader'.reads = reader.reads
  /\ reader'.saved = reader.saved
  /\ reader'.spoken = reader.spoken
  /\ reader'.extractedTexts = reader.extractedTexts
  /\ reader'.currentTextIndex = reader.currentTextIndex
  /\ tts'.synth.cmds = <<>>
  /\ tts'.synth.queue = tts.synth.queue
  /\ tts'.isPlaying = tts.isPlaying
  /\ ~hist'.threw

\* C29 as stated: when the response to extractText is an error, the overlay
\* shows "Error: " and the message, no speak command is issued, nothing is
\* added to the history and nothing is thrown.
ErrorIsShown ==
  [][(hist'.op = "ocrResponse" /\ hist'.arg = 1) =>
       /\ reader'.overlay.shown
       /\ reader'.overlay.content =
            [msg |-> "Error: ", text |-> <<"Gemini API error">>]
       /\ ErrorStartsNothing]_vars

\* C29: when the response to extractText is an error, the overlay, if it is
\* still there, shows "Error: " and the message, and when stopReading has
\* removed it while the request was pending nothing is shown; no speak
\* command is issued, nothing is added to the history and nothing is thrown.
ErrorIsShownInOverlay ==
  [][(hist'.op = "ocrResponse" /\ hist'.arg = 1) =>
       /\ reader.overlay.shown =>
            /\ reader'.overlay.shown
            /\ reader'.overlay.content =
                 [msg |-> "Error: ", text |-> <<"Gemini API error">>]
       /\ ~reader.overlay.shown => reader'.overlay = reader.overlay
       /\ ErrorStartsNothing]_vars

ErrorShown ==
  /\ hist.op = "ocrResponse"
  /\ hist.arg = 1
  /\ reader.overlay.shown
  /\ reader.overlay.content = [msg |-> "Error: ", text |-> <<"Gemini API error">>]
  /\ reader.saved = {}
  /\ reader.reads = <<>>

\* no text that is empty or white space is kept, awaits its settings read
\* or has been sent to the history
NoBlankText ==
  \A text \in Range(reader.extractedTexts) \cup Range(reader.reads)
                \cup reader.saved \cup Range(reader.spoken) :
    ~AllSpace(text)

\* a response whose texts are all empty or white space starts nothing
NoTextStartsNothing ==
  /\ reader'.extractedTexts = <<>>
  /\ reader'.reads = reader.reads
  /\ reader'.saved = reader.saved
  /\ reader'.spoken = reader.spoken
  /\ tts'.synth.cmds = <<>>
  /\ tts'.synth.queue = tts.synth.queue
  /\ tts'.isPlaying = tts.isPlaying

\* C30 as stated: no text that is empty or white space is passed to speak
\* or saved to the history, and when every text of a response is empty the
\* overlay shows "No text found in the images." and no speech starts.
EmptyTextsNeverRead ==
  /\ []NoBlankText
  /\ [][(hist'.op \in {"settingsRead", "voiceChange"} /\ ~hist'.threw) =>
          ~AllSpace(tts'.currentText)]_vars
  /\ [][(hist'.op = "ocrResponse" /\ hist'.arg = 3) =>
          /\ reader'.overlay.shown
          /\ reader'.overlay.content =
               [msg |-> "No text found in the images.", text |-> <<>>]
          /\ NoTextStartsNothing]_vars

\* C30: no text that is empty or white space is passed to speak or saved to
\* the history; when every text of a response is empty no speech starts,
\* and the overlay, if it is still there, shows "No text found in the
\* images.", while nothing is shown when stopReading has removed it.
EmptyTextsNeverReadOverlay ==
  /\ []NoBlankText
  /\ [][(hist'.op \in {"settingsRead", "voiceChange"} /\ ~hist'.threw) =>
          ~AllSpace(tts'.currentText)]_vars
  /\ [][(hist'.op = "ocrResponse" /\ hist'.arg = 3) =>
          /\ reader.overlay.shown =>
               /\ reader'.overlay.shown
               /\ reader'.overlay.content =
                    [msg |-> "No text found in the images.", text |-> <<>>]
          /\ ~reader.overlay.shown => reader'.overlay = reader.overlay
          /\ NoTextStartsNothing]_vars

NoTextFoundShown ==
  /\ hist.op = "ocrResponse"
  /\ hist.arg = 3
  /\ reader.overlay.shown
  /\ reader.overlay.content =
       [msg |-> "No text found in the images.", text |-> <<>>]
  /\ reader.saved = {<<"a">>, <<"b">>}
  /\ reader.extractedTexts = <<>>

\* C31: in every state in which the overlay is shown, a change of the voice
\* select throws nothing, submits an utterance of the current text
\* extractedTexts[currentTextIndex] with the voice picked and the speed of
\* the speed select, leaves the controller playing if it was playing and
\* paused if it was not, and saves the voice as defaultVoice.
VoiceChangeRestarts ==
  [][hist'.op = "voiceChange" =>
       /\ ~hist'.threw
       /\ reader.currentTextIndex < Len(reader.extractedTexts)
       /\ tts'.utterance # NoUtterance
       /\ tts'.utterance.text = reader.extractedTexts[reader.currentTextIndex + 1]
       /\ tts'.utterance.voice = hist'.voiceName
       /\ tts'.utterance.rate = reader.overlay.speed
       /\ tts'.isPlaying = tts.isPlaying
       /\ reader'.store.defaultVoice = hist'.voiceName]_vars

\* the entries of the stored history, by the number of the call
Stored == {bg.history[i].n : i \in 1..Len(bg.history)}

\* when the addHistoryEntry calls made have finished and the history was
\* not cleared, the entry of every call is in the stored history
NoLostEntry ==
  (bg.calls = <<>> /\ bg.clears = 0) => \A n \in 1..bg.adds : n \in Stored

\* the stored history holds no entry that clearHistory removed
NoClearedEntryBack == Stored \cap bg.cleared = {}

\* C32: when the addHistoryEntry calls made have finished and the history
\* was not cleared, the entry of every call is in the stored history, also
\* when calls overlapped; and the stored history never holds an entry that
\* clearHistory removed.
NoLostHistoryUpdates == NoLostEntry /\ NoClearedEntryBack

\* C33: no two entries of the stored history have the same id.
HistoryIdsUnique ==
  \A i, j \in 1..Len(bg.history) :
    bg.history[i].id = bg.history[j].id => i = j

====
